---- MODULE Spec2Model ----
(***************************************************************************)
(* Model of app.py: one Streamlit script run per button click.  A run      *)
(* validates the two coordinate strings, fetches a route from OSRM through *)
(* fetch_url, saves and reads back the folium map file, shows the map,     *)
(* fetches the weather through fetch_url, evaluates three decision         *)
(* branches, assembles the report and removes the map file.                *)
(*                                                                         *)
(* Numbers are fixed point: temperatures in tenths of a degree Celsius,    *)
(* distances in thousandths of a kilometre (route["distance"] / 1000).     *)
(* Python values that may be None, null or unbound are records             *)
(* [t |-> tag, v |-> integer].                                             *)
(***************************************************************************)
EXTENDS Integers, Sequences, FiniteSets, TLC

VARIABLES
    RETRY_AVAILABLE,  \* line 21-25: whether the retrying module was imported
    pc,               \* position of the script run
    run,              \* number of button clicks so far (uuid4 of the run)
    files,            \* map files on disk, named by the run that made them
    start, end,       \* raw text inputs, sequences of comma separated fields
    start_coords, end_coords,
    map_html, map_file, distance, duration,
    attempt_log,      \* outcomes of the attempts of the current fetch_url call
    fetch_status,     \* idle | running | returned | raised
    route_data, weather_data,
    weather_code, temperature, weather_desc, current_hour,
    suggestions,
    report,
    shown,            \* what the run has put on the page
    failure,          \* which step failed in this run
    error_msg,        \* message of the ValueError validate_coords raised
    weather_requested \* whether a weather request was issued in this run

vars == <<RETRY_AVAILABLE, pc, run, files, start, end, start_coords, end_coords,
          map_html, map_file, distance, duration, attempt_log, fetch_status,
          route_data, weather_data, weather_code, temperature, weather_desc,
          current_hour, suggestions, report, shown, failure, error_msg,
          weather_requested>>

-----------------------------------------------------------------------------
(* Values *)

Num(n) == [t |-> "num", v |-> n]
None == [t |-> "none", v |-> 0]
Null == [t |-> "null", v |-> 0]
Missing == [t |-> "missing", v |-> 0]
Unbound == [t |-> "unbound", v |-> 0]
Text == [t |-> "text", v |-> 0]

Deg(n) == 10 * n
Km(n) == 1000 * n

(* Bounds of the model *)
MaxRuns == 2

-----------------------------------------------------------------------------
(* validate_coords, lines 47-55 *)

RangeMsg == "range"      \* line 52
FormatMsg == "format"    \* line 55

IsFloat(field) == field.t = "num"

InRange(lon, lat) ==
    /\ Deg(-180) <= lon /\ lon <= Deg(180)
    /\ Deg(-90) <= lat /\ lat <= Deg(90)

\* The body of the try block: what it returns or which ValueError it raises.
validate_try(coord_str) ==
    IF Len(coord_str) # 2 \/ \E i \in 1..Len(coord_str) : ~IsFloat(coord_str[i])
    THEN [ok |-> FALSE, lon |-> 0, lat |-> 0, msg |-> "unpack_or_float"]
    ELSE IF ~InRange(coord_str[1].v, coord_str[2].v)
    THEN [ok |-> FALSE, lon |-> 0, lat |-> 0, msg |-> RangeMsg]
    ELSE [ok |-> TRUE, lon |-> coord_str[1].v, lat |-> coord_str[2].v, msg |-> "none"]

\* The bare except of line 54 catches every exception of the body, the range
\* error of line 52 included, and raises the format error instead.
validate_coords(coord_str) ==
    LET r == validate_try(coord_str)
    IN  IF r.ok THEN r ELSE [r EXCEPT !.msg = FormatMsg]

CoordStrings ==
    { <<Num(Deg(116)), Num(Deg(39))>>,
      <<Num(Deg(180)), Num(Deg(-90))>>,
      <<Num(Deg(180) + 1), Num(Deg(39))>>,
      <<Num(Deg(116)), Num(Deg(-90) - 1)>>,
      <<Num(Deg(116))>>,
      <<Num(Deg(1)), Num(Deg(2)), Num(Deg(3))>>,
      <<Num(Deg(116)), Text>> }

-----------------------------------------------------------------------------
(* fetch_url, lines 58-66 *)

stop_max_attempt_number == 3

\* What one attempt can raise: requests.get times out or cannot connect,
\* raise_for_status meets a non-2xx status, response.json() meets a body that
\* is not JSON.
RaisingOutcomes == {"timeout", "connection", "http_status", "bad_body"}

MaxAttempts == IF RETRY_AVAILABLE THEN stop_max_attempt_number ELSE 1

\* A retry policy that also retries a 2xx response whose status is not Ok.
ShouldRetry_status(outcome, n) ==
    (outcome \in RaisingOutcomes \/ outcome = "2xx_NoRoute") /\ n < MaxAttempts

\* retrying retries after any exception of the wrapped function, and never
\* after a return.
ShouldRetry(outcome, n) == outcome \in RaisingOutcomes /\ n < MaxAttempts

RouteResponses ==
    { [code |-> "Ok", routes_ok |-> TRUE, distance |-> d, duration |-> 300]
        : d \in {1200, Km(10), Km(10) + 1} }
    \cup { [code |-> "Ok", routes_ok |-> FALSE, distance |-> 0, duration |-> 0],
           [code |-> "NoRoute", routes_ok |-> FALSE, distance |-> 0, duration |-> 0] }

WeatherCodes == {Num(0), Num(50), Num(51), Num(63), Null}
Temperatures == {Num(49), Num(Deg(5)), Num(Deg(30)), Num(Deg(30) + 1), Null}

WeatherResponses ==
    { [has_cw |-> TRUE, code |-> c, temp |-> t]
        : c \in WeatherCodes, t \in Temperatures \cup {Missing} }
    \cup { [has_cw |-> FALSE, code |-> Missing, temp |-> Missing],
           [has_cw |-> TRUE, code |-> Missing, temp |-> Num(Deg(20))] }

NoData == [none |-> TRUE]

-----------------------------------------------------------------------------
(* Decision branches, lines 150-199 *)

\* lines 150-154
WeatherDesc(code) ==
    IF code = Num(0) THEN "clear"
    ELSE IF code = Num(1) THEN "few clouds"
    ELSE IF code = Num(2) THEN "cloudy"
    ELSE IF code = Num(3) THEN "overcast"
    ELSE IF code = Num(51) THEN "light rain"
    ELSE IF code = Num(61) THEN "rain"
    ELSE IF code = Num(63) THEN "heavy rain"
    ELSE IF code = Num(71) THEN "light snow"
    ELSE IF code = Num(73) THEN "snow"
    ELSE IF code = Num(75) THEN "heavy snow"
    ELSE "unknown"

RainCode == 51
HotAbove == 30
ColdBelow == 5
LongDistanceKm == 10
PeakHours == {7, 8, 9, 17, 18, 19}
Hours == 0..23

\* lines 162-169
PrecipRule(code) == IF code >= RainCode THEN "rain_delay" ELSE "weather_ok"

\* A temperature rule whose upper bound is inclusive.
TempRule_inclusive(t) ==
    IF t >= Deg(HotAbove) THEN "light_clothing"
    ELSE IF t < Deg(ColdBelow) THEN "warm_clothing"
    ELSE "normal_clothing"

\* lines 173-184
TempRule(t) ==
    IF t > Deg(HotAbove) THEN "light_clothing"
    ELSE IF t < Deg(ColdBelow) THEN "warm_clothing"
    ELSE "normal_clothing"

\* A congestion rule whose distance bound is inclusive.
CongestionRule_ge(hour, dist) ==
    IF hour \in PeakHours \/ dist >= Km(LongDistanceKm)
    THEN "avoid_peak" ELSE "favorable"

\* lines 188-198
CongestionRule(hour, dist) ==
    LET is_peak_hour == hour \in PeakHours
        is_long_distance == dist > Km(LongDistanceKm)
    IN  IF is_peak_hour \/ is_long_distance THEN "avoid_peak" ELSE "favorable"

Fallback == "weather_unavailable"   \* line 207

\* A handler that ends the run, and one that keeps the records appended so far.
weather_except_stop(sugg) == [suggestions |-> <<Fallback>>, pc |-> "stopped"]
weather_except_append(sugg) == [suggestions |-> Append(sugg, Fallback), pc |-> "report"]

\* lines 204-207: the handler of the weather block
weather_except(sugg) == [suggestions |-> <<Fallback>>, pc |-> "report"]

\* A weather line written for every non-empty list.
HasWeatherLine_any(sugg) == Len(sugg) >= 1

\* line 213
HasWeatherLine(sugg) == Len(sugg) > 1

\* A cleanup that leaves the file in place.
cleanup_noop(fs, mf) == fs

\* lines 225-226
cleanup(fs, mf) == IF mf.t = "file" /\ mf.v \in fs THEN fs \ {mf.v} ELSE fs

\* An st.stop() that returns, so that the run goes on at line 135.
st_stop_noop == "show_map"

\* st.stop() of lines 104, 128, 133: StopException ends the script run
st_stop == "stopped"

-----------------------------------------------------------------------------
Init ==
    /\ RETRY_AVAILABLE \in BOOLEAN
    /\ pc = "idle"
    /\ run = 0
    /\ files = {}
    /\ start = <<>> /\ end = <<>>
    /\ start_coords = None /\ end_coords = None
    /\ map_html = None /\ map_file = None
    /\ distance = None /\ duration = None
    /\ attempt_log = <<>>
    /\ fetch_status = "idle"
    /\ route_data = NoData /\ weather_data = NoData
    /\ weather_code = Unbound /\ temperature = Unbound
    /\ weather_desc = "unbound"
    /\ current_hour = Unbound
    /\ suggestions = <<>>
    /\ report = None
    /\ shown = {}
    /\ failure = "none"
    /\ error_msg = "none"
    /\ weather_requested = FALSE


-----------------------------------------------------------------------------
(* The script run, lines 82-226 *)

\* line 82-90: the button is clicked and the run's variables are initialised.
\* A click is possible again once the previous run has ended.
ClickButton ==
    /\ pc \in {"idle", "done", "stopped", "crashed"}
    /\ run < MaxRuns
    /\ \E s \in CoordStrings, e \in CoordStrings :
        /\ start' = s
        /\ end' = e
    /\ run' = run + 1
    /\ pc' = "validate"
    /\ map_html' = None /\ distance' = None /\ duration' = None
    /\ start_coords' = None /\ end_coords' = None /\ map_file' = None
    /\ attempt_log' = <<>> /\ fetch_status' = "idle"
    /\ route_data' = NoData /\ weather_data' = NoData
    /\ weather_code' = Unbound /\ temperature' = Unbound
    /\ weather_desc' = "unbound" /\ current_hour' = Unbound
    /\ suggestions' = <<>> /\ report' = None
    /\ shown' = {} /\ failure' = "none" /\ error_msg' = "none"
    /\ weather_requested' = FALSE
    /\ UNCHANGED <<RETRY_AVAILABLE, files>>

\* lines 95-96, with the handler of lines 126-128
ValidateInputs ==
    /\ pc = "validate"
    /\ LET rs == validate_coords(start)
           re == validate_coords(end)
       IN  IF ~rs.ok
           THEN /\ error_msg' = rs.msg
                /\ failure' = "validation"
                /\ shown' = shown \cup {"error_input"}
                /\ pc' = st_stop
                /\ UNCHANGED <<start_coords, end_coords, fetch_status>>
           ELSE IF ~re.ok
           THEN /\ start_coords' = <<rs.lon, rs.lat>>
                /\ error_msg' = re.msg
                /\ failure' = "validation"
                /\ shown' = shown \cup {"error_input"}
                /\ pc' = st_stop
                /\ UNCHANGED <<end_coords, fetch_status>>
           ELSE /\ start_coords' = <<rs.lon, rs.lat>>
                /\ end_coords' = <<re.lon, re.lat>>
                /\ pc' = "route_fetch"
                /\ fetch_status' = "running"
                /\ UNCHANGED <<error_msg, failure, shown>>
    /\ UNCHANGED <<RETRY_AVAILABLE, run, files, start, end, map_html, map_file,
                   distance, duration, attempt_log, route_data, weather_data,
                   weather_code, temperature, weather_desc, current_hour,
                   suggestions, report, weather_requested>>

\* line 100: one attempt of fetch_url(osrm_url).  A raising attempt is retried
\* while ShouldRetry allows it; the exception of the last attempt reaches the
\* handler of lines 129-133.
RouteFetchAttempt ==
    /\ pc = "route_fetch"
    /\ \/ \E o \in RaisingOutcomes, hint \in BOOLEAN :
            /\ attempt_log' = Append(attempt_log, o)
            /\ IF ShouldRetry(o, Len(attempt_log) + 1)
               THEN /\ hint = FALSE
                    /\ UNCHANGED <<pc, fetch_status, shown, failure>>
               ELSE /\ fetch_status' = "raised"
                    /\ failure' = "routing_transport"
                    /\ shown' = shown \cup {"error_route"}
                                 \cup (IF hint THEN {"info_network"} ELSE {})
                    /\ pc' = st_stop
            /\ UNCHANGED route_data
       \/ \E data \in RouteResponses :
            /\ attempt_log' = Append(attempt_log, "2xx_" \o data.code)
            /\ IF ShouldRetry("2xx_" \o data.code, Len(attempt_log) + 1)
               THEN UNCHANGED <<pc, fetch_status, route_data>>
               ELSE /\ fetch_status' = "returned"
                    /\ route_data' = data
                    /\ pc' = "route_check"
            /\ UNCHANGED <<shown, failure>>
    /\ UNCHANGED <<RETRY_AVAILABLE, run, files, start, end, start_coords,
                   end_coords, map_html, map_file, distance, duration,
                   weather_data, weather_code, temperature, weather_desc,
                   current_hour, suggestions, report, error_msg,
                   weather_requested>>

\* lines 102-116: the status check and the extraction of the route
RouteCheck ==
    /\ pc = "route_check"
    /\ IF route_data.code # "Ok"
       THEN /\ shown' = shown \cup {"error_noroute"}
            /\ failure' = "routing_status"
            /\ pc' = st_stop
            /\ UNCHANGED <<distance, duration, attempt_log, fetch_status>>
       ELSE IF ~route_data.routes_ok
       THEN /\ shown' = shown \cup {"error_route"}
            /\ failure' = "routing_data"
            /\ pc' = st_stop
            /\ UNCHANGED <<distance, duration, attempt_log, fetch_status>>
       ELSE /\ distance' = Num(route_data.distance)
            /\ duration' = Num(route_data.duration)
            /\ pc' = "save_map"
            /\ attempt_log' = <<>>
            /\ fetch_status' = "idle"
            /\ UNCHANGED <<shown, failure>>
    /\ UNCHANGED <<RETRY_AVAILABLE, run, files, start, end, start_coords,
                   end_coords, map_html, map_file, route_data, weather_data,
                   weather_code, temperature, weather_desc, current_hour,
                   suggestions, report, error_msg, weather_requested>>

\* lines 119-120: m.save may fail before or after the file exists
SaveMap ==
    /\ pc = "save_map"
    /\ map_file' = [t |-> "file", v |-> run]
    /\ \E o \in {"ok", "fail_before", "fail_partial"} :
        /\ files' = IF o = "fail_before" THEN files ELSE files \cup {run}
        /\ IF o = "ok"
           THEN /\ pc' = "read_map"
                /\ UNCHANGED <<shown, failure>>
           ELSE /\ shown' = shown \cup {"error_route"}
                /\ failure' = "map_file"
                /\ pc' = st_stop
    /\ UNCHANGED <<RETRY_AVAILABLE, run, start, end, start_coords, end_coords,
                   map_html, distance, duration, attempt_log, fetch_status,
                   route_data, weather_data, weather_code, temperature,
                   weather_desc, current_hour, suggestions, report, error_msg,
                   weather_requested>>

\* lines 123-124
ReadMap ==
    /\ pc = "read_map"
    /\ \E ok \in BOOLEAN :
        IF ok
        THEN /\ map_html' = [t |-> "html", v |-> map_file.v]
             /\ pc' = "show_map"
             /\ UNCHANGED <<shown, failure>>
        ELSE /\ shown' = shown \cup {"error_route"}
             /\ failure' = "map_file"
             /\ pc' = st_stop
             /\ UNCHANGED map_html
    /\ UNCHANGED <<RETRY_AVAILABLE, run, files, start, end, start_coords,
                   end_coords, map_file, distance, duration, attempt_log,
                   fetch_status, route_data, weather_data, weather_code,
                   temperature, weather_desc, current_hour, suggestions,
                   report, error_msg, weather_requested>>

\* lines 136-143; formatting distance fails when it is still None
ShowMap ==
    /\ pc = "show_map"
    /\ IF distance.t = "num"
       THEN /\ shown' = shown \cup {"map", "route_info"}
            /\ suggestions' = <<>>
            /\ pc' = "weather_fetch"
            /\ fetch_status' = "running"
       ELSE /\ shown' = shown \cup {"map"}
            /\ pc' = "crashed"
            /\ UNCHANGED <<suggestions, fetch_status>>
    /\ UNCHANGED <<RETRY_AVAILABLE, run, files, start, end, start_coords,
                   end_coords, map_html, map_file, distance, duration,
                   attempt_log, route_data, weather_data, weather_code,
                   temperature, weather_desc, current_hour, report, failure,
                   error_msg, weather_requested>>


\* line 147: one attempt of fetch_url(weather_url); the exception of the last
\* attempt reaches the handler of lines 204-207.
WeatherFetchAttempt ==
    /\ pc = "weather_fetch"
    /\ weather_requested' = TRUE
    /\ \/ \E o \in RaisingOutcomes :
            /\ attempt_log' = Append(attempt_log, o)
            /\ IF ShouldRetry(o, Len(attempt_log) + 1)
               THEN UNCHANGED <<pc, fetch_status, shown, failure, suggestions>>
               ELSE /\ fetch_status' = "raised"
                    /\ failure' = "weather"
                    /\ shown' = shown \cup {"weather_error"}
                    /\ suggestions' = weather_except(suggestions).suggestions
                    /\ pc' = weather_except(suggestions).pc
            /\ UNCHANGED weather_data
       \/ \E data \in WeatherResponses :
            /\ attempt_log' = Append(attempt_log, "2xx")
            /\ IF ShouldRetry("2xx", Len(attempt_log) + 1)
               THEN UNCHANGED <<pc, fetch_status, weather_data>>
               ELSE /\ fetch_status' = "returned"
                    /\ weather_data' = data
                    /\ pc' = "weather_extract"
            /\ UNCHANGED <<shown, failure, suggestions>>
    /\ UNCHANGED <<RETRY_AVAILABLE, run, files, start, end, start_coords,
                   end_coords, map_html, map_file, distance, duration,
                   route_data, weather_code, temperature, weather_desc,
                   current_hour, report, error_msg>>

\* lines 148-159: a missing key raises KeyError into the handler of 204-207
WeatherExtract ==
    /\ pc = "weather_extract"
    /\ attempt_log' = <<>>
    /\ fetch_status' = "idle"
    /\ IF ~weather_data.has_cw \/ weather_data.code = Missing
       THEN /\ failure' = "weather"
            /\ shown' = shown \cup {"weather_error"}
            /\ suggestions' = weather_except(suggestions).suggestions
            /\ pc' = weather_except(suggestions).pc
            /\ UNCHANGED <<weather_code, temperature, weather_desc>>
       ELSE IF weather_data.temp = Missing
       THEN /\ weather_code' = weather_data.code
            /\ failure' = "weather"
            /\ shown' = shown \cup {"weather_error"}
            /\ suggestions' = weather_except(suggestions).suggestions
            /\ pc' = weather_except(suggestions).pc
            /\ UNCHANGED <<temperature, weather_desc>>
       ELSE /\ weather_code' = weather_data.code
            /\ temperature' = weather_data.temp
            /\ weather_desc' = WeatherDesc(weather_data.code)
            /\ shown' = shown \cup {"weather_now"}
            /\ pc' = "rule1"
            /\ UNCHANGED <<failure, suggestions>>
    /\ UNCHANGED <<RETRY_AVAILABLE, run, files, start, end, start_coords,
                   end_coords, map_html, map_file, distance, duration,
                   route_data, weather_data, current_hour, report, error_msg,
                   weather_requested>>

\* lines 161-170: comparing a code that is no number raises TypeError
Rule1 ==
    /\ pc = "rule1"
    /\ IF weather_code.t = "num"
       THEN /\ suggestions' = Append(suggestions, PrecipRule(weather_code.v))
            /\ shown' = shown \cup {"decision1"}
            /\ pc' = "rule2"
            /\ UNCHANGED failure
       ELSE /\ failure' = "weather"
            /\ shown' = shown \cup {"weather_error"}
            /\ suggestions' = weather_except(suggestions).suggestions
            /\ pc' = weather_except(suggestions).pc
    /\ UNCHANGED <<RETRY_AVAILABLE, run, files, start, end, start_coords,
                   end_coords, map_html, map_file, distance, duration,
                   attempt_log, fetch_status, route_data, weather_data,
                   weather_code, temperature, weather_desc, current_hour,
                   report, error_msg, weather_requested>>

\* lines 172-185: comparing a temperature that is no number raises TypeError
Rule2 ==
    /\ pc = "rule2"
    /\ IF temperature.t = "num"
       THEN /\ suggestions' = Append(suggestions, TempRule(temperature.v))
            /\ shown' = shown \cup {"decision2"}
            /\ pc' = "rule3"
            /\ UNCHANGED failure
       ELSE /\ failure' = "weather"
            /\ shown' = shown \cup {"weather_error"}
            /\ suggestions' = weather_except(suggestions).suggestions
            /\ pc' = weather_except(suggestions).pc
    /\ UNCHANGED <<RETRY_AVAILABLE, run, files, start, end, start_coords,
                   end_coords, map_html, map_file, distance, duration,
                   attempt_log, fetch_status, route_data, weather_data,
                   weather_code, temperature, weather_desc, current_hour,
                   report, error_msg, weather_requested>>

\* lines 187-202: datetime.now().hour is read here
Rule3 ==
    /\ pc = "rule3"
    /\ \E h \in Hours :
        /\ current_hour' = Num(h)
        /\ suggestions' = Append(suggestions, CongestionRule(h, distance.v))
    /\ shown' = shown \cup {"decision3", "table"}
    /\ pc' = "report"
    /\ UNCHANGED <<RETRY_AVAILABLE, run, files, start, end, start_coords,
                   end_coords, map_html, map_file, distance, duration,
                   attempt_log, fetch_status, route_data, weather_data,
                   weather_code, temperature, weather_desc, failure, report,
                   error_msg, weather_requested>>

\* lines 209-222: reading weather_desc or temperature while unbound raises
\* NameError, which nothing catches
Report ==
    /\ pc = "report"
    /\ IF HasWeatherLine(suggestions)
       THEN IF weather_desc = "unbound" \/ temperature.t = "unbound"
            THEN /\ pc' = "crashed"
                 /\ UNCHANGED <<report, shown>>
            ELSE /\ report' = [t |-> "report", start |-> start, end |-> end,
                               distance |-> distance, duration |-> duration,
                               weather_line |-> TRUE,
                               weather_desc |-> weather_desc,
                               temperature |-> temperature,
                               advisory |-> suggestions]
                 /\ shown' = shown \cup {"download"}
                 /\ pc' = "cleanup"
       ELSE /\ report' = [t |-> "report", start |-> start, end |-> end,
                          distance |-> distance, duration |-> duration,
                          weather_line |-> FALSE,
                          weather_desc |-> "unbound",
                          temperature |-> Unbound,
                          advisory |-> suggestions]
            /\ shown' = shown \cup {"download"}
            /\ pc' = "cleanup"
    /\ UNCHANGED <<RETRY_AVAILABLE, run, files, start, end, start_coords,
                   end_coords, map_html, map_file, distance, duration,
                   attempt_log, fetch_status, route_data, weather_data,
                   weather_code, temperature, weather_desc, current_hour,
                   suggestions, failure, error_msg, weather_requested>>

\* lines 224-226
Cleanup ==
    /\ pc = "cleanup"
    /\ files' = cleanup(files, map_file)
    /\ pc' = "done"
    /\ UNCHANGED <<RETRY_AVAILABLE, run, start, end, start_coords, end_coords,
                   map_html, map_file, distance, duration, attempt_log,
                   fetch_status, route_data, weather_data, weather_code,
                   temperature, weather_desc, current_hour, suggestions,
                   report, shown, failure, error_msg, weather_requested>>

Next ==
    \/ ClickButton
    \/ ValidateInputs
    \/ RouteFetchAttempt
    \/ RouteCheck
    \/ SaveMap
    \/ ReadMap
    \/ ShowMap
    \/ WeatherFetchAttempt
    \/ WeatherExtract
    \/ Rule1
    \/ Rule2
    \/ Rule3
    \/ Report
    \/ Cleanup

Spec == Init /\ [][Next]_vars


-----------------------------------------------------------------------------
(* Properties *)

Ended == pc \in {"done", "stopped", "crashed"}

NumericPair(s) == Len(s) = 2 /\ s[1].t = "num" /\ s[2].t = "num"

OutOfRange(s) ==
    \/ s[1].v < -1800 \/ s[1].v > 1800
    \/ s[2].v < -900 \/ s[2].v > 900

ValidCoord(s) == NumericPair(s) /\ ~OutOfRange(s)

\* The input whose validation failed in this run: the start, or else the end.
FailedInput == IF ValidCoord(start) THEN end ELSE start

\* C1: a coordinate string of two numbers with the longitude outside
\* [-180,180] or the latitude outside [-90,90] fails validation with the range
\* error, which differs from the format error.
C1_RangeErrorDistinguishable ==
    (failure = "validation" /\ NumericPair(FailedInput) /\ OutOfRange(FailedInput))
        => (error_msg = RangeMsg /\ error_msg # FormatMsg)

\* C2: when validation of the start or the end fails, or the routing step
\* fails (transport error after the retries, a response whose status is not Ok,
\* or a response without a route), the run halts with an error on the page and
\* no later step runs: no map, no weather request, no report.
C2_FatalFailureHalts ==
    ( \/ (pc \notin {"idle", "validate"} /\ ~(ValidCoord(start) /\ ValidCoord(end)))
      \/ failure \in {"routing_transport", "routing_status", "routing_data"} )
        => /\ pc = "stopped"
           /\ shown \cap {"error_input", "error_route", "error_noroute"} # {}
           /\ shown \cap {"map", "route_info", "weather_now", "download"} = {}
           /\ ~weather_requested
           /\ report = None
           /\ suggestions = <<>>

C2_Witness ==
    /\ pc = "stopped"
    /\ failure = "routing_status"
    /\ route_data.code = "NoRoute"
    /\ "error_noroute" \in shown

\* C3: once routing has succeeded, a failure of the weather step (transport
\* error after the retries, or a malformed response) never ends the run: the
\* map, the distance and the duration are on the page, the advisory is exactly
\* the one fallback message, the report is produced, nothing escapes.
C3_WeatherFailureNonFatal ==
    failure = "weather"
        => /\ pc \in {"report", "cleanup", "done"}
           /\ {"map", "route_info"} \subseteq shown
           /\ map_html.t = "html"
           /\ distance.t = "num" /\ duration.t = "num"
           /\ suggestions = <<Fallback>>
           /\ pc \in {"cleanup", "done"}
                => /\ report.t = "report"
                   /\ report.advisory = <<Fallback>>
                   /\ report.distance = distance
                   /\ report.duration = duration
                   /\ "download" \in shown

C3_Witness ==
    /\ pc = "done"
    /\ failure = "weather"
    /\ fetch_status = "raised"
    /\ report.t = "report"

FailedAt(i) == attempt_log[i] \in {"timeout", "connection", "http_status", "bad_body"}

TransportFailedAt(i) == attempt_log[i] \in {"timeout", "connection", "http_status"}

LastAttemptExhausted ==
    /\ attempt_log # <<>>
    /\ FailedAt(Len(attempt_log))
    /\ (Len(attempt_log) = 3 \/ ~RETRY_AVAILABLE)

ErrorSurfaced ==
    /\ fetch_status = "raised"
    /\ \/ pc = "stopped" /\ failure = "routing_transport" /\ "error_route" \in shown
       \/ failure = "weather" /\ "weather_error" \in shown

\* C4 (as stated): a call through fetch_url is attempted at most 3 times, a
\* further attempt is made only after a timeout, a connection error or a
\* non-2xx status, a 2xx response that says no route is never retried, and
\* after the last failed attempt an error reaches the caller.
C4_RetryOnlyAfterTransportFailure ==
    /\ Len(attempt_log) <= 3
    /\ \A i \in 1..(Len(attempt_log) - 1) : TransportFailedAt(i)
    /\ LastAttemptExhausted => ErrorSurfaced

\* C4 (amended): a call through fetch_url is attempted at most 3 times, a
\* further attempt is made only after the previous attempt raised (timeout,
\* connection error, non-2xx status, or a 2xx body that is not JSON), a 2xx
\* response that says no route is never retried, and after the last failed
\* attempt an error reaches the caller.
C4_RetryOnlyAfterRaisedAttempt ==
    /\ Len(attempt_log) <= 3
    /\ \A i \in 1..(Len(attempt_log) - 1) : FailedAt(i)
    /\ \A i \in 1..(Len(attempt_log) - 1) : attempt_log[i] # "2xx_NoRoute"
    /\ LastAttemptExhausted => ErrorSurfaced

C4_Witness ==
    /\ attempt_log = <<"timeout", "bad_body", "http_status">>
    /\ pc = "stopped"
    /\ fetch_status = "raised"

RuleRecords(sugg) ==
    /\ Len(sugg) = 3
    /\ sugg[1] \in {"rain_delay", "weather_ok"}
    /\ sugg[2] \in {"light_clothing", "warm_clothing", "normal_clothing"}
    /\ sugg[3] \in {"avoid_peak", "favorable"}

\* C5: in a run that reaches report assembly the advisory list is either the
\* three records precipitation, temperature, congestion in this order, or the
\* one fallback record; a list of one or two rule records never reaches the
\* report.
C5_AdvisoryAllOrFallback ==
    pc \in {"report", "cleanup", "done"}
        => /\ (suggestions = <<Fallback>> \/ RuleRecords(suggestions))
           /\ report.t = "report"
                => (report.advisory = <<Fallback>> \/ RuleRecords(report.advisory))

C5_Witness ==
    /\ pc = "done"
    /\ failure = "weather"
    /\ "decision1" \in shown
    /\ report.advisory = <<Fallback>>

\* C6: when the map file was created and read into the response, it is gone
\* when the run has ended, with and without a weather failure; and the file
\* of a run exists only after the routing call returned a route.
C6_FileRemovedAfterRead ==
    /\ map_html.t = "html"
        => /\ pc \notin {"stopped", "crashed"}
           /\ pc = "done" => run \notin files
    /\ run \in files
        => /\ map_file = [t |-> "file", v |-> run]
           /\ route_data.code = "Ok" /\ route_data.routes_ok
           /\ distance.t = "num"

C6_Witness ==
    /\ pc = "done"
    /\ failure = "weather"
    /\ map_html.t = "html"
    /\ map_file.t = "file"
    /\ run \notin files

\* C7: the temperature record is the light-clothing message exactly when
\* t > 30, the warm-clothing message exactly when t < 5, and the
\* normal-clothing message otherwise, so also for t = 5 and t = 30.
C7_TemperatureBands ==
    Len(suggestions) >= 2
        => /\ temperature.t = "num"
           /\ suggestions[2] = "light_clothing" <=> temperature.v > 300
           /\ suggestions[2] = "warm_clothing" <=> temperature.v < 50
           /\ suggestions[2] = "normal_clothing"
                <=> (50 <= temperature.v /\ temperature.v <= 300)

C7_Witness ==
    /\ Len(suggestions) = 3
    /\ temperature.v = 300
    /\ suggestions[2] = "normal_clothing"

\* C8: the congestion record is the avoid-peak message exactly when the hour
\* is one of 7, 8, 9, 17, 18, 19 or the distance is above 10 km, and the
\* favorable message otherwise, whatever the weather code and temperature.
C8_CongestionRule ==
    Len(suggestions) = 3
        => /\ current_hour.t = "num" /\ distance.t = "num"
           /\ suggestions[3] = "avoid_peak"
                <=> (current_hour.v \in {7, 8, 9, 17, 18, 19} \/ distance.v > 10000)
           /\ suggestions[3] = "favorable"
                <=> ~(current_hour.v \in {7, 8, 9, 17, 18, 19} \/ distance.v > 10000)

C8_Witness ==
    /\ Len(suggestions) = 3
    /\ current_hour.v = 10
    /\ distance.v = 10000
    /\ suggestions[3] = "favorable"

\* C9: the report has the weather line exactly when the weather fetch of the
\* run succeeded and all three rules were evaluated; the description and the
\* temperature it prints were set in this run; a report with the fallback
\* advisory has no weather line; assembling the report never fails.
C9_WeatherLineIffRulesEvaluated ==
    /\ pc # "crashed"
    /\ report.t = "report"
        => /\ report.weather_line
                <=> /\ failure # "weather"
                    /\ weather_data \in WeatherResponses
                    /\ {"decision1", "decision2", "decision3"} \subseteq shown
           /\ report.weather_line
                => /\ report.temperature.t = "num"
                   /\ report.temperature = weather_data.temp
                   /\ report.weather_desc # "unbound"
                   /\ report.weather_desc = weather_desc
           /\ report.advisory = <<Fallback>> => ~report.weather_line

C9_Witness ==
    /\ pc = "done"
    /\ report.t = "report"
    /\ report.weather_line
    /\ report.weather_desc = "heavy rain"

\* C10: on every exit path of a run, error paths after the creation of the
\* map file included, the map file of the run is deleted.
C10_FileDeletedOnEveryExit == Ended => run \notin files

====
